---- MODULE Spec2Model ----
(***************************************************************************)
(* Model of the gophersweeper-lib grid engine (src/src/lib.rs):            *)
(* GameConfig::size / GameConfig::gophers, GopherSweeper::new (the random  *)
(* placement loop, one draw per step), toggle_flag, try_expose_cell,       *)
(* expose_recursively and surrounding_cells_coords.                        *)
(*                                                                         *)
(* A coordinate is the pair <<x, y>>; field[<<x, y>>] is the Rust          *)
(* field[y][x].  An f32 density is the pair m, e standing for m * 2^(-e)   *)
(* with m < 2^24, so the f32 product and the ceiling of gophers() are      *)
(* computed exactly as IEEE-754 single precision does.                     *)
(***************************************************************************)
EXTENDS Integers, Sequences, FiniteSets, TLC

VARIABLES config, field, remaining_cells, planted_gophers, pc, last, wins

vars == <<config, field, remaining_cells, planted_gophers, pc, last, wins>>

(***************************************************************************)
(* Bounds of the model.                                                    *)
(***************************************************************************)
\* Custom field sizes width x height with width * height <= MaxCells.
MaxCells == 6
\* The caller keeps at most MaxFlags cells flagged at a time.
MaxFlags == 1
\* Where size(), gophers() and surrounding_cells_coords() are applied without
\* a grid being built: custom sizes up to MaxSide x MaxSide.
MaxSide == 10

(***************************************************************************)
(* Configuration (lib.rs 4-10, 177-233).                                   *)
(***************************************************************************)
SMALL == <<10, 8>>
MEDIUM == <<18, 12>>
BIG == <<24, 20>>

EASY == [m |-> 13421773, e |-> 27]      \* 0.1f32
NORMAL == [m |-> 10066330, e |-> 26]    \* 0.15f32
HARD == [m |-> 13421773, e |-> 26]      \* 0.2f32

\* Difficulty::Custom { gophers_percentage } values the model draws from:
\* 0.0 and 1.0 as f32.
CustomPercentages ==
    { [m |-> 0, e |-> 0], [m |-> 8388608, e |-> 23] }

Difficulty ==
    { [kind |-> "Easy", gophers_percentage |-> EASY],
      [kind |-> "Normal", gophers_percentage |-> NORMAL],
      [kind |-> "Hard", gophers_percentage |-> HARD] }
    \cup { [kind |-> "Custom", gophers_percentage |-> p] : p \in CustomPercentages }

\* FieldSize::Custom { width, height } values the model draws from.
FieldSize ==
    { [kind |-> "Custom", width |-> w, height |-> h] :
        w \in 1..MaxCells, h \in 1..MaxCells }

GameConfig ==
    { [field_size |-> s, difficulty |-> d] :
        s \in { t \in FieldSize : t.width * t.height <= MaxCells },
        d \in Difficulty }

\* GameConfig::size
size(c) ==
    CASE c.field_size.kind = "Small" -> SMALL
      [] c.field_size.kind = "Medium" -> MEDIUM
      [] c.field_size.kind = "Big" -> BIG
      [] OTHER -> <<c.field_size.width, c.field_size.height>>

Pow2(k) == 2 ^ k

\* The f32 product d * (n as f32) for 0 <= n < 2^12 (n as f32 is exact),
\* rounded to nearest, ties to even, again as a pair m, e.  The exact
\* product d.m * n is kept in two 12-bit limbs, hi * 2^12 + lo, so that no
\* intermediate value leaves 32 bits.
F32Mul(d, n) ==
    LET a == (d.m \div Pow2(12)) * n
        b == (d.m % Pow2(12)) * n
        hi == a + (b \div Pow2(12))
        lo == b % Pow2(12)
        s == CHOOSE k \in 0..12 :
                 hi < Pow2(12 + k) /\ (k = 0 \/ hi >= Pow2(11 + k))
        q == hi * Pow2(12 - s) + (lo \div Pow2(s))
        r == lo % Pow2(s)
        up == s > 0 /\ (2 * r > Pow2(s) \/ (2 * r = Pow2(s) /\ q % 2 = 1))
    IN  [m |-> IF up THEN q + 1 ELSE q, e |-> d.e - s]

\* f32::ceil followed by `as usize`, for a value v >= 0.
F32CeilAsUsize(v) ==
    IF v.e >= 0
    THEN (v.m \div Pow2(v.e)) + (IF v.m % Pow2(v.e) = 0 THEN 0 ELSE 1)
    ELSE v.m * Pow2(-v.e)

\* GameConfig::gophers
gophers(c) ==
    LET wh == size(c)
    IN  F32CeilAsUsize(F32Mul(c.difficulty.gophers_percentage, wh[1] * wh[2]))

(***************************************************************************)
(* Grid helpers.                                                           *)
(***************************************************************************)
Coords(c) == (0..(size(c)[1] - 1)) \X (0..(size(c)[2] - 1))

\* Cell::default()
DefaultCell ==
    [is_exposed |-> FALSE, is_flagged |-> FALSE, has_gopher |-> FALSE,
     surrounding_gophers |-> 0]

\* Mutant: only the four edge neighbours, no diagonals.
surrounding_cells_coords_NoDiagonals(c, x, y) ==
    LET w == size(c)[1]
        h == size(c)[2]
    IN  (IF x > 0 THEN << <<x - 1, y>> >> ELSE << >>)
        \o (IF y > 0 THEN << <<x, y - 1>> >> ELSE << >>)
        \o (IF x + 1 < w THEN << <<x + 1, y>> >> ELSE << >>)
        \o (IF y + 1 < h THEN << <<x, y + 1>> >> ELSE << >>)

\* Mutant: the upper left diagonal is pushed without looking at x.
surrounding_cells_coords_UnguardedDiagonal(c, x, y) ==
    LET w == size(c)[1]
        h == size(c)[2]
    IN  (IF x > 0 THEN << <<x - 1, y>> >> ELSE << >>)
        \o (IF y > 0 THEN << <<x, y - 1>> >> ELSE << >>)
        \o (IF x + 1 < w THEN << <<x + 1, y>> >> ELSE << >>)
        \o (IF y + 1 < h THEN << <<x, y + 1>> >> ELSE << >>)
        \o (IF y > 0 THEN << <<x - 1, y - 1>> >> ELSE << >>)
        \o (IF x > 0 /\ y + 1 < h THEN << <<x - 1, y + 1>> >> ELSE << >>)
        \o (IF x + 1 < w /\ y > 0 THEN << <<x + 1, y - 1>> >> ELSE << >>)
        \o (IF x + 1 < w /\ y + 1 < h THEN << <<x + 1, y + 1>> >> ELSE << >>)

\* GopherSweeper::surrounding_cells_coords, in the order of its pushes.
surrounding_cells_coords(c, x, y) ==
    LET w == size(c)[1]
        h == size(c)[2]
    IN  (IF x > 0 THEN << <<x - 1, y>> >> ELSE << >>)
        \o (IF y > 0 THEN << <<x, y - 1>> >> ELSE << >>)
        \o (IF x + 1 < w THEN << <<x + 1, y>> >> ELSE << >>)
        \o (IF y + 1 < h THEN << <<x, y + 1>> >> ELSE << >>)
        \o (IF x > 0 /\ y > 0 THEN << <<x - 1, y - 1>> >> ELSE << >>)
        \o (IF x > 0 /\ y + 1 < h THEN << <<x - 1, y + 1>> >> ELSE << >>)
        \o (IF x + 1 < w /\ y > 0 THEN << <<x + 1, y - 1>> >> ELSE << >>)
        \o (IF x + 1 < w /\ y + 1 < h THEN << <<x + 1, y + 1>> >> ELSE << >>)

\* The loop of `new` at lines 55-57: surrounding_gophers += 1 on each
\* neighbour, in order (u8, at most 8 increments per cell).
RECURSIVE IncrementSurrounding(_, _, _)

\* Mutant: the last neighbour of the list is left out.
IncrementSurrounding_SkipsLast(f, cs, i) ==
    IF i >= Len(cs) THEN f
    ELSE IncrementSurrounding(
             [f EXCEPT ![cs[i]].surrounding_gophers = (@ + 1) % 256], cs, i + 1)

IncrementSurrounding(f, cs, i) ==
    IF i > Len(cs) THEN f
    ELSE IncrementSurrounding(
             [f EXCEPT ![cs[i]].surrounding_gophers = (@ + 1) % 256], cs, i + 1)

(***************************************************************************)
(* Flood-fill exposure (lib.rs 98-111).  g is the pair of the fields the   *)
(* method mutates: [field, remaining_cells].                               *)
(***************************************************************************)
RECURSIVE expose_recursively(_, _, _, _)
RECURSIVE ExposeSurrounding(_, _, _, _)

\* Mutant: an exposed cell that carries a flag is not counted.
expose_recursively_FlaggedUncounted(c, g, x, y) ==
    LET g1 == [field |-> [g.field EXCEPT ![<<x, y>>].is_exposed = TRUE],
               remaining_cells |-> IF g.field[<<x, y>>].is_flagged
                                   THEN g.remaining_cells
                                   ELSE g.remaining_cells - 1]
    IN  IF g.field[<<x, y>>].surrounding_gophers = 0
        THEN ExposeSurrounding(c, g1, surrounding_cells_coords(c, x, y), 1)
        ELSE g1

\* Mutant: the cascade also starts from a cell with one gopher around it.
expose_recursively_CascadesAtOne(c, g, x, y) ==
    LET g1 == [field |-> [g.field EXCEPT ![<<x, y>>].is_exposed = TRUE],
               remaining_cells |-> g.remaining_cells - 1]
    IN  IF g.field[<<x, y>>].surrounding_gophers <= 1
        THEN ExposeSurrounding(c, g1, surrounding_cells_coords(c, x, y), 1)
        ELSE g1

\* Mutant: the cell is exposed and counted, its neighbours are not visited.
expose_recursively_NoCascade(c, g, x, y) ==
    [field |-> [g.field EXCEPT ![<<x, y>>].is_exposed = TRUE],
     remaining_cells |-> g.remaining_cells - 1]

expose_recursively(c, g, x, y) ==
    LET g1 == [field |-> [g.field EXCEPT ![<<x, y>>].is_exposed = TRUE],
               remaining_cells |-> g.remaining_cells - 1]
    IN  IF g.field[<<x, y>>].surrounding_gophers = 0
        THEN ExposeSurrounding(c, g1, surrounding_cells_coords(c, x, y), 1)
        ELSE g1

\* Mutant: the cascade leaves flagged neighbours alone.
ExposeSurrounding_StopAtFlags(c, g, cs, i) ==
    IF i > Len(cs) THEN g
    ELSE IF ~g.field[cs[i]].is_exposed /\ ~g.field[cs[i]].is_flagged
         THEN ExposeSurrounding(c, expose_recursively(c, g, cs[i][1], cs[i][2]), cs, i + 1)
         ELSE ExposeSurrounding(c, g, cs, i + 1)

\* Mutant: the loop ends at the first neighbour found exposed.
ExposeSurrounding_BreaksOnExposed(c, g, cs, i) ==
    IF i > Len(cs) THEN g
    ELSE IF ~g.field[cs[i]].is_exposed
         THEN ExposeSurrounding(c, expose_recursively(c, g, cs[i][1], cs[i][2]), cs, i + 1)
         ELSE g

\* Mutant: the loop ends before the last neighbour of the list.
ExposeSurrounding_SkipsLast(c, g, cs, i) ==
    IF i >= Len(cs) THEN g
    ELSE IF ~g.field[cs[i]].is_exposed
         THEN ExposeSurrounding(c, expose_recursively(c, g, cs[i][1], cs[i][2]), cs, i + 1)
         ELSE ExposeSurrounding(c, g, cs, i + 1)

\* The for loop at lines 105-109 over the neighbour list cs, from index i.
ExposeSurrounding(c, g, cs, i) ==
    IF i > Len(cs) THEN g
    ELSE IF ~g.field[cs[i]].is_exposed
         THEN ExposeSurrounding(c, expose_recursively(c, g, cs[i][1], cs[i][2]), cs, i + 1)
         ELSE ExposeSurrounding(c, g, cs, i + 1)

(***************************************************************************)
(* The same flood fill with its invocations observed.  g carries, beside   *)
(* field and remaining_cells: calls, the number of invocations of          *)
(* expose_recursively so far; depth, the number of invocations now on the  *)
(* stack; max_depth, the largest depth so far; on_exposed, whether some    *)
(* invocation was made on a cell that was exposed at that moment.          *)
(***************************************************************************)
RECURSIVE TracedExpose(_, _, _, _)
RECURSIVE TracedExposeSurrounding(_, _, _, _)

\* expose_recursively (lines 98-111).
TracedExpose(c, g, x, y) ==
    LET g1 == [g EXCEPT !.field[<<x, y>>].is_exposed = TRUE,
                        !.remaining_cells = @ - 1,
                        !.calls = @ + 1,
                        !.depth = @ + 1,
                        !.max_depth = IF g.depth + 1 > @ THEN g.depth + 1 ELSE @,
                        !.on_exposed = @ \/ g.field[<<x, y>>].is_exposed]
        g2 == IF g.field[<<x, y>>].surrounding_gophers = 0
              THEN TracedExposeSurrounding(c, g1, surrounding_cells_coords(c, x, y), 1)
              ELSE g1
    IN  [g2 EXCEPT !.depth = @ - 1]

\* Mutant: the cascade exposes a numbered neighbour again each time it
\* meets one.
TracedExposeSurrounding_ReexposesBorder(c, g, cs, i) ==
    IF i > Len(cs) THEN g
    ELSE IF ~g.field[cs[i]].is_exposed \/ g.field[cs[i]].surrounding_gophers > 0
         THEN TracedExposeSurrounding(c, TracedExpose(c, g, cs[i][1], cs[i][2]), cs, i + 1)
         ELSE TracedExposeSurrounding(c, g, cs, i + 1)

\* The for loop at lines 105-109.
TracedExposeSurrounding(c, g, cs, i) ==
    IF i > Len(cs) THEN g
    ELSE IF ~g.field[cs[i]].is_exposed
         THEN TracedExposeSurrounding(c, TracedExpose(c, g, cs[i][1], cs[i][2]), cs, i + 1)
         ELSE TracedExposeSurrounding(c, g, cs, i + 1)

(***************************************************************************)
(* The public operations as functions of the state they read.              *)
(***************************************************************************)
\* Mutant: a flag left on an exposed cell is cleared on the way out.
toggle_flag_ClearsExposedFlag(f, x, y) ==
    IF f[<<x, y>>].is_exposed
    THEN [field |-> [f EXCEPT ![<<x, y>>].is_flagged = FALSE],
          result |-> "CellWasExposed"]
    ELSE LET f1 == [f EXCEPT ![<<x, y>>].is_flagged = ~@]
         IN  [field |-> f1,
              result |-> IF f1[<<x, y>>].is_flagged THEN "Enabled" ELSE "Disabled"]

\* Mutant: the flag is set, not flipped.
toggle_flag_SetOnly(f, x, y) ==
    IF f[<<x, y>>].is_exposed
    THEN [field |-> f, result |-> "CellWasExposed"]
    ELSE LET f1 == [f EXCEPT ![<<x, y>>].is_flagged = TRUE]
         IN  [field |-> f1,
              result |-> IF f1[<<x, y>>].is_flagged THEN "Enabled" ELSE "Disabled"]

\* Mutant: the result is read from the flag as it was before the flip.
toggle_flag_StaleResult(f, x, y) ==
    IF f[<<x, y>>].is_exposed
    THEN [field |-> f, result |-> "CellWasExposed"]
    ELSE LET f1 == [f EXCEPT ![<<x, y>>].is_flagged = ~@]
         IN  [field |-> f1,
              result |-> IF f[<<x, y>>].is_flagged THEN "Enabled" ELSE "Disabled"]

\* GopherSweeper::toggle_flag: the new field and the returned variant.
toggle_flag(f, x, y) ==
    IF f[<<x, y>>].is_exposed
    THEN [field |-> f, result |-> "CellWasExposed"]
    ELSE LET f1 == [f EXCEPT ![<<x, y>>].is_flagged = ~@]
         IN  [field |-> f1,
              result |-> IF f1[<<x, y>>].is_flagged THEN "Enabled" ELSE "Disabled"]

\* Mutant: Win is decided from remaining_cells as it was before the exposure.
try_expose_cell_StaleWin(c, f, rc, x, y) ==
    LET cell == f[<<x, y>>]
        same(r) == [field |-> f, remaining_cells |-> rc, result |-> r]
    IN  IF cell.is_exposed THEN same("WasAlreadyExposed")
        ELSE IF cell.is_flagged THEN same("IsFlagged")
        ELSE IF cell.has_gopher THEN same("HasGopher")
        ELSE LET g == expose_recursively(c, [field |-> f, remaining_cells |-> rc], x, y)
             IN  [field |-> g.field, remaining_cells |-> g.remaining_cells,
                  result |-> IF rc = 0 THEN "Win" ELSE "Exposed"]

\* Mutant: the flag is looked at before the exposure.
try_expose_cell_FlagFirst(c, f, rc, x, y) ==
    LET cell == f[<<x, y>>]
        same(r) == [field |-> f, remaining_cells |-> rc, result |-> r]
    IN  IF cell.is_flagged THEN same("IsFlagged")
        ELSE IF cell.is_exposed THEN same("WasAlreadyExposed")
        ELSE IF cell.has_gopher THEN same("HasGopher")
        ELSE LET g == expose_recursively(c, [field |-> f, remaining_cells |-> rc], x, y)
             IN  [field |-> g.field, remaining_cells |-> g.remaining_cells,
                  result |-> IF g.remaining_cells = 0 THEN "Win" ELSE "Exposed"]

\* Mutant: a cell found to hold a gopher is shown (exposed) before
\* HasGopher is returned.
try_expose_cell_ShowGopher(c, f, rc, x, y) ==
    LET cell == f[<<x, y>>]
        same(r) == [field |-> f, remaining_cells |-> rc, result |-> r]
    IN  IF cell.is_exposed THEN same("WasAlreadyExposed")
        ELSE IF cell.is_flagged THEN same("IsFlagged")
        ELSE IF cell.has_gopher
             THEN [field |-> [f EXCEPT ![<<x, y>>].is_exposed = TRUE],
                   remaining_cells |-> rc, result |-> "HasGopher"]
        ELSE LET g == expose_recursively(c, [field |-> f, remaining_cells |-> rc], x, y)
             IN  [field |-> g.field, remaining_cells |-> g.remaining_cells,
                  result |-> IF g.remaining_cells = 0 THEN "Win" ELSE "Exposed"]

\* GopherSweeper::try_expose_cell: the new field and remaining_cells and the
\* returned variant.
try_expose_cell(c, f, rc, x, y) ==
    LET cell == f[<<x, y>>]
        same(r) == [field |-> f, remaining_cells |-> rc, result |-> r]
    IN  IF cell.is_exposed THEN same("WasAlreadyExposed")
        ELSE IF cell.is_flagged THEN same("IsFlagged")
        ELSE IF cell.has_gopher THEN same("HasGopher")
        ELSE LET g == expose_recursively(c, [field |-> f, remaining_cells |-> rc], x, y)
             IN  [field |-> g.field, remaining_cells |-> g.remaining_cells,
                  result |-> IF g.remaining_cells = 0 THEN "Win" ELSE "Exposed"]

(***************************************************************************)
(* State machine.                                                          *)
(*                                                                         *)
(* last records the latest step: the draw of the placement loop or the     *)
(* call made, its coordinates and what it returned.  last.collided is,    *)
(* for a draw, whether this or an earlier draw of the loop hit a           *)
(* coordinate that was already chosen (FALSE for a call).  wins counts the *)
(* Win results returned so far (saturating at 2).  Both are history        *)
(* variables: no operation reads them.                                     *)
(***************************************************************************)
NoCall == [op |-> "none", x |-> 0, y |-> 0, result |-> "none", collided |-> FALSE]

\* Mutant: the loop stops one gopher short.
PlacementContinues_OneShort(planted, c) == Cardinality(planted) + 1 < gophers(c)

\* The condition of the placement loop (line 49).
\* Mutant: the loop also stops once every cell holds a gopher.
PlacementContinues_StopsWhenFull(planted, c) ==
    /\ Cardinality(planted) < gophers(c)
    /\ Cardinality(planted) < size(c)[1] * size(c)[2]

PlacementContinues(planted, c) == Cardinality(planted) < gophers(c)

\* GopherSweeper::new up to the placement loop (lines 27-47).
Init ==
    /\ config \in GameConfig
    /\ field = [p \in Coords(config) |-> DefaultCell]
    /\ remaining_cells = size(config)[1] * size(config)[2] - gophers(config)
    /\ planted_gophers = {}
    /\ pc = IF PlacementContinues({}, config) THEN "new" ELSE "ready"
    /\ last = NoCall
    /\ wins = 0

\* Mutant: a draw that hits an already chosen coordinate increments the
\* neighbours again.
NewDraw_CountsCollision ==
    /\ pc = "new"
    /\ \E x \in 0..(size(config)[1] - 1), y \in 0..(size(config)[2] - 1) :
        LET inserted == <<x, y>> \notin planted_gophers
            planted == planted_gophers \cup {<<x, y>>}
        IN  /\ planted_gophers' = planted
            /\ field' = IncrementSurrounding(
                             [field EXCEPT ![<<x, y>>].has_gopher = TRUE],
                             surrounding_cells_coords(config, x, y), 1)
            /\ pc' = IF PlacementContinues(planted, config) THEN "new" ELSE "ready"
            /\ last' = [op |-> "draw", x |-> x, y |-> y,
                        result |-> IF inserted THEN "Planted" ELSE "Collision",
                        collided |-> last.collided \/ ~inserted]
    /\ UNCHANGED <<config, remaining_cells, wins>>

\* One iteration of the placement loop (lines 49-59) with the drawn
\* coordinates x, y; `new` returns when the loop condition fails.
NewDraw ==
    /\ pc = "new"
    /\ \E x \in 0..(size(config)[1] - 1), y \in 0..(size(config)[2] - 1) :
        LET inserted == <<x, y>> \notin planted_gophers
            planted == planted_gophers \cup {<<x, y>>}
        IN  /\ planted_gophers' = planted
            /\ field' = IF inserted
                        THEN IncrementSurrounding(
                                 [field EXCEPT ![<<x, y>>].has_gopher = TRUE],
                                 surrounding_cells_coords(config, x, y), 1)
                        ELSE field
            /\ pc' = IF PlacementContinues(planted, config) THEN "new" ELSE "ready"
            /\ last' = [op |-> "draw", x |-> x, y |-> y,
                        result |-> IF inserted THEN "Planted" ELSE "Collision",
                        collided |-> last.collided \/ ~inserted]
    /\ UNCHANGED <<config, remaining_cells, wins>>

Flagged(f) == { p \in DOMAIN f : f[p].is_flagged }

\* A call toggle_flag(x, y) on the constructed grid.
ToggleFlag ==
    /\ pc = "ready"
    /\ \E p \in Coords(config) :
        LET r == toggle_flag(field, p[1], p[2])
        IN  /\ Cardinality(Flagged(r.field)) <= MaxFlags
            /\ field' = r.field
            /\ last' = [op |-> "toggle_flag", x |-> p[1], y |-> p[2],
                        result |-> r.result, collided |-> FALSE]
    /\ UNCHANGED <<config, remaining_cells, planted_gophers, pc, wins>>

\* A call try_expose_cell(x, y) on the constructed grid.
TryExposeCell ==
    /\ pc = "ready"
    /\ \E p \in Coords(config) :
        LET r == try_expose_cell(config, field, remaining_cells, p[1], p[2])
        IN  /\ field' = r.field
            /\ remaining_cells' = r.remaining_cells
            /\ last' = [op |-> "try_expose_cell", x |-> p[1], y |-> p[2],
                        result |-> r.result, collided |-> FALSE]
            /\ wins' = IF r.result = "Win" /\ wins < 2 THEN wins + 1 ELSE wins
    /\ UNCHANGED <<config, planted_gophers, pc>>

Next == NewDraw \/ ToggleFlag \/ TryExposeCell

Spec == Init /\ [][Next]_vars

(***************************************************************************)
(* The grid by itself.  The initial states are the grids `new` returns:    *)
(* gophers() distinct coordinates planted, whatever the draws were.  The   *)
(* calls change the grid and their return values are dropped.  Beside the  *)
(* recursive flood fill of try_expose_cell runs the iterative one the      *)
(* specification asks a reimplementation to be equal to: a worklist of     *)
(* coordinates, processed one at a time in any order.  While it runs,     *)
(* last.result holds the worklist (pending) and the grid the run began in  *)
(* (before), last.x and last.y the cell it began on.                       *)
(***************************************************************************)
RECURSIVE PlantAll(_, _, _)

\* The placement loop (lines 49-59) run to its end, S the coordinates it
\* inserted.
PlantAll(c, f, S) ==
    IF S = {} THEN f
    ELSE LET p == CHOOSE q \in S : TRUE
         IN  PlantAll(c,
                      IncrementSurrounding([f EXCEPT ![p].has_gopher = TRUE],
                                           surrounding_cells_coords(c, p[1], p[2]), 1),
                      S \ {p})

InitGrid ==
    /\ config \in GameConfig
    /\ planted_gophers \in { S \in SUBSET Coords(config) :
                                Cardinality(S) = gophers(config) }
    /\ field = PlantAll(config, [p \in Coords(config) |-> DefaultCell],
                        planted_gophers)
    /\ remaining_cells = size(config)[1] * size(config)[2] - gophers(config)
    /\ pc = "ready"
    /\ last = NoCall
    /\ wins = 0

\* A call toggle_flag(x, y).
GridToggleFlag ==
    /\ pc = "ready"
    /\ \E p \in Coords(config) :
        LET r == toggle_flag(field, p[1], p[2])
        IN  /\ Cardinality(Flagged(r.field)) <= MaxFlags
            /\ field' = r.field
    /\ UNCHANGED <<config, remaining_cells, planted_gophers, pc, last, wins>>

\* A call try_expose_cell(x, y).
GridTryExposeCell ==
    /\ pc = "ready"
    /\ \E p \in Coords(config) :
        LET r == try_expose_cell(config, field, remaining_cells, p[1], p[2])
        IN  /\ field' = r.field
            /\ remaining_cells' = r.remaining_cells
    /\ UNCHANGED <<config, planted_gophers, pc, last, wins>>

\* The iterative exposure begins on a cell the checks of try_expose_cell
\* let through: the worklist holds that cell.
WorklistStart ==
    /\ pc = "ready"
    /\ \E p \in Coords(config) :
        /\ ~field[p].is_exposed /\ ~field[p].is_flagged /\ ~field[p].has_gopher
        /\ last' = [op |-> "worklist", x |-> p[1], y |-> p[2],
                    result |-> [pending |-> {p},
                                before |-> [field |-> field,
                                            remaining_cells |-> remaining_cells]],
                    collided |-> FALSE]
    /\ pc' = "worklist"
    /\ UNCHANGED <<config, field, remaining_cells, planted_gophers, wins>>

\* Any coordinate q is taken off the worklist.  An exposed cell is dropped;
\* an unexposed one is marked exposed and counted, and if no gopher is
\* around it, its unexposed neighbours are put on the worklist.
WorklistStep ==
    /\ pc = "worklist"
    /\ \E q \in last.result.pending :
        LET rest == last.result.pending \ {q}
            cs == surrounding_cells_coords(config, q[1], q[2])
            more == IF field[q].surrounding_gophers = 0
                    THEN { cs[i] : i \in { j \in 1..Len(cs) : ~field[cs[j]].is_exposed } }
                    ELSE {}
        IN  IF field[q].is_exposed
            THEN /\ last' = [last EXCEPT !.result.pending = rest]
                 /\ UNCHANGED <<field, remaining_cells>>
            ELSE /\ field' = [field EXCEPT ![q].is_exposed = TRUE]
                 /\ remaining_cells' = remaining_cells - 1
                 /\ last' = [last EXCEPT !.result.pending = rest \cup more]
    /\ UNCHANGED <<config, planted_gophers, pc, wins>>

\* The worklist is empty: the iterative exposure is over.
WorklistDone ==
    /\ pc = "worklist"
    /\ last.result.pending = {}
    /\ pc' = "ready"
    /\ last' = NoCall
    /\ UNCHANGED <<config, field, remaining_cells, planted_gophers, wins>>

NextGrid ==
    \/ GridToggleFlag
    \/ GridTryExposeCell
    \/ WorklistStart
    \/ WorklistStep
    \/ WorklistDone

SpecGrid == InitGrid /\ [][NextGrid]_vars

(***************************************************************************)
(* Construction alone, for every density: the difficulties of GameConfig   *)
(* and a custom percentage of 1.5, which asks for more gophers than there  *)
(* are cells.  `new` then computes width * height - gophers below zero     *)
(* (line 33): a build with overflow checks panics there, a build without   *)
(* them wraps and goes on to the placement loop.  A negative               *)
(* remaining_cells r stands for the wrapped usize 2^64 + r.  The draws are *)
(* fair: a free coordinate is not left out for ever.                       *)
(***************************************************************************)
OverPercentage == [m |-> 12582912, e |-> 23]     \* 1.5f32

PlacementConfig ==
    GameConfig
    \cup { [field_size |-> c.field_size,
            difficulty |-> [kind |-> "Custom", gophers_percentage |-> OverPercentage]] :
            c \in GameConfig }

InitPlacement ==
    /\ config \in PlacementConfig
    /\ planted_gophers = {}
    /\ last = NoCall
    /\ wins = 0
    /\ LET n == size(config)[1] * size(config)[2]
       IN  \/ /\ gophers(config) > n
              /\ pc = "panic"
              /\ field = << >>
              /\ remaining_cells = 0
           \/ /\ field = [p \in Coords(config) |-> DefaultCell]
              /\ remaining_cells = n - gophers(config)
              /\ pc = IF PlacementContinues({}, config) THEN "new" ELSE "ready"

NextPlacement == NewDraw

\* rng.gen_range draws every coordinate of the grid again and again, so
\* while a cell without a gopher exists, a draw that hits one comes.
FairDraws == WF_vars(NewDraw /\ last'.result = "Planted")

SpecPlacement == InitPlacement /\ [][NextPlacement]_vars /\ FairDraws

(***************************************************************************)
(* The configuration and the neighbour enumeration as functions: a         *)
(* GameConfig is built from any field size (the three presets, custom      *)
(* sizes up to MaxSide x MaxSide) and any difficulty, and size(),          *)
(* gophers() and surrounding_cells_coords() are applied to it.  No grid is *)
(* built; last holds the latest application and its result.                *)
(***************************************************************************)
PresetFieldSize == { [kind |-> "Small"], [kind |-> "Medium"], [kind |-> "Big"] }

\* Difficulty::Custom values applied here beside the presets: 0.0, 1.0 and
\* 0.5, 0.7 as f32.
ConfigPercentages ==
    CustomPercentages \cup { [m |-> 8388608, e |-> 24], [m |-> 11744051, e |-> 24] }

\* GameConfig::new
ConfigSpace ==
    { [field_size |-> s, difficulty |-> d] :
        s \in PresetFieldSize
               \cup { [kind |-> "Custom", width |-> w, height |-> h] :
                        w \in 1..MaxSide, h \in 1..MaxSide },
        d \in Difficulty
               \cup { [kind |-> "Custom", gophers_percentage |-> p] :
                        p \in ConfigPercentages } }

InitConfig ==
    /\ config \in ConfigSpace
    /\ field = << >>
    /\ remaining_cells = 0
    /\ planted_gophers = {}
    /\ pc = "config"
    /\ last = NoCall
    /\ wins = 0

\* config.size()
CallSize ==
    /\ pc = "config"
    /\ last' = [op |-> "size", x |-> 0, y |-> 0, result |-> size(config),
                collided |-> FALSE]
    /\ UNCHANGED <<config, field, remaining_cells, planted_gophers, pc, wins>>

\* config.gophers()
CallGophers ==
    /\ pc = "config"
    /\ last' = [op |-> "gophers", x |-> 0, y |-> 0, result |-> gophers(config),
                collided |-> FALSE]
    /\ UNCHANGED <<config, field, remaining_cells, planted_gophers, pc, wins>>

\* surrounding_cells_coords(x, y) for an in-range cell.
CallSurroundingCellsCoords ==
    /\ pc = "config"
    /\ \E p \in Coords(config) :
        last' = [op |-> "surrounding_cells_coords", x |-> p[1], y |-> p[2],
                 result |-> surrounding_cells_coords(config, p[1], p[2]),
                 collided |-> FALSE]
    /\ UNCHANGED <<config, field, remaining_cells, planted_gophers, pc, wins>>

NextConfig == CallSize \/ CallGophers \/ CallSurroundingCellsCoords

SpecConfig == InitConfig /\ [][NextConfig]_vars

(***************************************************************************)
(* Vocabulary of the properties.                                           *)
(***************************************************************************)
Width == size(config)[1]
Height == size(config)[2]
Cells == Coords(config)
Exposed(f) == { p \in DOMAIN f : f[p].is_exposed }
Gophers(f) == { p \in DOMAIN f : f[p].has_gopher }
\* The cell of the latest step.
LastCell == <<last.x, last.y>>
\* The grid is built and calls may be made.
Ready == pc = "ready"
\* No call has been made on the grid yet.
Fresh == last.op \in {"none", "draw"}
\* What try_expose_cell(p) would do in the current state.
ExposeAt(p) == try_expose_cell(config, field, remaining_cells, p[1], p[2])
\* What toggle_flag(p) would do in the current state.
ToggleAt(p) == toggle_flag(field, p[1], p[2])

\* C1: once the grid is built, remaining_cells is the number of cells that
\* hold no gopher and are not exposed: width * height - gophers before the
\* first call, never below 0, and 0 exactly when every gopher-free cell is
\* exposed.
C1_RemainingCellsCount ==
    Ready =>
        /\ remaining_cells = Cardinality(Cells \ (Gophers(field) \cup Exposed(field)))
        /\ remaining_cells >= 0
        /\ (Fresh => remaining_cells = Width * Height - gophers(config))
        /\ (remaining_cells = 0 <=> (Cells \ Gophers(field)) \subseteq Exposed(field))

\* C1 witness: a flood fill has exposed several cells at once, one of them
\* flagged, and cells remain.
C1_Witness ==
    /\ Ready
    /\ last.op = "try_expose_cell" /\ last.result = "Exposed"
    /\ remaining_cells + 2 < Width * Height - gophers(config)
    /\ Exposed(field) \cap Flagged(field) # {}

\* C2: exposing all gopher-free cells yields exactly one Win.  A call that
\* exposes returns Win when it brings remaining_cells to 0 and Exposed
\* otherwise; once remaining_cells is 0 no call returns Win or Exposed; so
\* Win has been returned once when remaining_cells is 0 (and some cell is
\* gopher-free) and never before.
C2_ExactlyOneWin ==
    Ready =>
        /\ wins <= 1
        /\ (wins = 1 <=> (remaining_cells = 0 /\ Cells # Gophers(field)))
        /\ (last.result = "Win" => remaining_cells = 0)
        /\ (last.result = "Exposed" => remaining_cells > 0)
        /\ \A p \in Cells :
              LET r == ExposeAt(p)
              IN  /\ (remaining_cells = 0 => r.result \notin {"Win", "Exposed"})
                  /\ (r.field # field =>
                        r.result = IF r.remaining_cells = 0 THEN "Win" ELSE "Exposed")

\* C2 witness: the game was won on a grid with several gopher-free cells and
\* a later try_expose_cell has returned something else.
C2_Witness ==
    /\ Ready
    /\ wins = 1
    /\ Cardinality(Cells \ Gophers(field)) >= 3
    /\ last.op = "try_expose_cell"
    /\ last.result \in {"WasAlreadyExposed", "IsFlagged", "HasGopher"}

\* The result the priority order prescribes for try_expose_cell(p).
PriorityResult(p) ==
    IF field[p].is_exposed THEN {"WasAlreadyExposed"}
    ELSE IF field[p].is_flagged THEN {"IsFlagged"}
    ELSE IF field[p].has_gopher THEN {"HasGopher"}
    ELSE {"Exposed", "Win"}

\* C3: try_expose_cell decides in priority order: exposed gives
\* WasAlreadyExposed (flagged or not, won or not), else flagged gives
\* IsFlagged (gopher or not), else a gopher gives HasGopher, and only
\* otherwise the cell is exposed and Exposed or Win returned.
C3_PriorityOrder ==
    Ready =>
        \A p \in Cells :
            LET r == ExposeAt(p)
            IN  /\ r.result \in PriorityResult(p)
                /\ (r.result \in {"Exposed", "Win"} <=> r.field # field)
                /\ (r.result \in {"Exposed", "Win"} => r.field[p].is_exposed)

\* C3 witness: after the win, try_expose_cell on a cell that is exposed and
\* flagged has returned WasAlreadyExposed.
C3_Witness ==
    /\ Ready
    /\ last.op = "try_expose_cell" /\ last.result = "WasAlreadyExposed"
    /\ field[LastCell].is_exposed /\ field[LastCell].is_flagged
    /\ remaining_cells = 0 /\ wins = 1

\* What try_expose_cell(p) would do where it refuses: nothing, and the same
\* again.
C4_RefusalIsNoOp ==
    Ready =>
        \A p \in Cells :
            LET r == ExposeAt(p)
            IN  r.result \in {"WasAlreadyExposed", "IsFlagged", "HasGopher"} =>
                    /\ r.field = field
                    /\ r.remaining_cells = remaining_cells
                    /\ try_expose_cell(config, r.field, r.remaining_cells,
                                       p[1], p[2]).result = r.result

\* A step whose call returned one of the three refusals changed neither the
\* field nor remaining_cells.
C4_RefusalStep ==
    (last'.op = "try_expose_cell"
       /\ last'.result \in {"WasAlreadyExposed", "IsFlagged", "HasGopher"})
    => (field' = field /\ remaining_cells' = remaining_cells)

\* C4: a try_expose_cell that returns WasAlreadyExposed, IsFlagged or
\* HasGopher leaves every cell and remaining_cells as they were (the gopher
\* cell is not exposed), and the same call made again returns the same.
C4_RefusalChangesNothing == [](C4_RefusalIsNoOp) /\ [][C4_RefusalStep]_vars

\* C4 witness: after some exposure, try_expose_cell on a gopher has returned
\* HasGopher and the gopher cell is still unexposed.
C4_Witness ==
    /\ Ready
    /\ last.op = "try_expose_cell" /\ last.result = "HasGopher"
    /\ field[LastCell].has_gopher /\ ~field[LastCell].is_exposed
    /\ Exposed(field) # {}

(***************************************************************************)
(* Flood fill as the specification describes it: regions of zero-count     *)
(* cells under 8-connectivity, found by a fixpoint that knows nothing of   *)
(* the recursion.                                                          *)
(***************************************************************************)
Abs(n) == IF n < 0 THEN -n ELSE n
Adjacent(p, q) == p # q /\ Abs(p[1] - q[1]) <= 1 /\ Abs(p[2] - q[2]) <= 1
ZeroCells == { p \in Cells : field[p].surrounding_gophers = 0 }

RECURSIVE GrowZeroRegion(_)
GrowZeroRegion(S) ==
    LET T == S \cup { q \in ZeroCells : \E r \in S : Adjacent(r, q) }
    IN  IF T = S THEN S ELSE GrowZeroRegion(T)

\* The connected region of zero-count cells that holds the zero-count cell p.
ZeroRegion(p) == GrowZeroRegion({p})
\* The cells outside the region R that touch it (all of non-zero count).
Border(R) == { q \in Cells \ R : \E r \in R : Adjacent(r, q) }
\* The cells try_expose_cell(p) is to reach.
Reach(p) ==
    IF field[p].surrounding_gophers = 0
    THEN ZeroRegion(p) \cup Border(ZeroRegion(p))
    ELSE {p}
\* try_expose_cell(p) gets as far as the flood fill.
Exposable(p) ==
    ~field[p].is_exposed /\ ~field[p].is_flagged /\ ~field[p].has_gopher
\* The cells try_expose_cell(p) would turn from unexposed to exposed.
NewlyExposed(p) == Exposed(ExposeAt(p).field) \ Exposed(field)

\* C5 as stated: try_expose_cell on an unexposed, unflagged, gopher-free
\* cell newly exposes exactly its zero-count region plus the bordering
\* non-zero cells when its count is 0, and exactly the cell itself otherwise.
C5_NewlyExposedIsWholeReach ==
    Ready => \A p \in { q \in Cells : Exposable(q) } : NewlyExposed(p) = Reach(p)

\* C5 amended: the call leaves exposed exactly what was exposed before plus
\* the zero-count region and its bordering non-zero cells (the cell alone when
\* its count is not 0); border cells exposed earlier are not newly exposed,
\* the region itself is wholly unexposed before the call, and nothing but
\* is_exposed changes in any cell.
C5_FloodFillReach ==
    Ready =>
        \A p \in { q \in Cells : Exposable(q) } :
            LET after == ExposeAt(p).field
                reach == Reach(p)
            IN  /\ Exposed(after) \ Exposed(field) = reach \ Exposed(field)
                /\ Exposed(after) = Exposed(field) \cup reach
                /\ (field[p].surrounding_gophers = 0 =>
                        ZeroRegion(p) \cap Exposed(field) = {})
                /\ after = [q \in Cells |->
                              [field[q] EXCEPT !.is_exposed = @ \/ q \in reach]]

\* C5 witness: a flood fill from a zero-count cell has exposed its region
\* and border, at least three cells, and gopher-free cells beyond the border
\* stay unexposed.
C5_Witness ==
    /\ Ready
    /\ last.op = "try_expose_cell" /\ last.result = "Exposed"
    /\ field[LastCell].surrounding_gophers = 0
    /\ Cardinality(Reach(LastCell)) >= 3
    /\ Reach(LastCell) \subseteq Exposed(field)
    /\ Cells \ (Exposed(field) \cup Gophers(field)) # {}

\* C6: flood fill does not stop at flags.  Every neighbour of a zero-count
\* cell the cascade reaches ends up exposed whatever its flag, no flag is
\* changed, every newly exposed cell is counted in remaining_cells, and a
\* flagged cell the cascade exposes is one a direct try_expose_cell refuses
\* with IsFlagged.
C6_FloodFillIgnoresFlags ==
    Ready =>
        \A p \in { q \in Cells : Exposable(q) } :
            LET r == ExposeAt(p)
                new == Exposed(r.field) \ Exposed(field)
                cascaded == { z \in new : field[z].surrounding_gophers = 0 }
            IN  /\ \A z \in cascaded : \A q \in Cells :
                      Adjacent(z, q) => q \in Exposed(r.field)
                /\ Flagged(r.field) = Flagged(field)
                /\ r.remaining_cells = remaining_cells - Cardinality(new)
                /\ \A q \in new \cap Flagged(field) :
                      ExposeAt(q).result = "IsFlagged"

\* C6 witness: a flood fill has exposed a flagged cell other than the one
\* the call was made on; the cell is now exposed and flagged.
C6_Witness ==
    /\ Ready
    /\ last.op = "try_expose_cell" /\ last.result \in {"Exposed", "Win"}
    /\ field[LastCell].surrounding_gophers = 0
    /\ \E q \in Cells \ {LastCell} : field[q].is_exposed /\ field[q].is_flagged

\* What toggle_flag(p) would do on an exposed cell: return CellWasExposed and
\* change no cell.
C7_ExposedIsNoOp ==
    Ready =>
        \A p \in Cells :
            field[p].is_exposed =>
                /\ ToggleAt(p).result = "CellWasExposed"
                /\ ToggleAt(p).field = field

\* A toggle_flag step on an exposed cell returned CellWasExposed and changed
\* neither the field nor remaining_cells.
C7_ExposedStep ==
    (last'.op = "toggle_flag" /\ field[LastCell'].is_exposed)
    => (last'.result = "CellWasExposed"
        /\ field' = field /\ remaining_cells' = remaining_cells)

\* C7: toggle_flag on an exposed cell always returns CellWasExposed and
\* changes neither is_flagged nor anything else, also when the exposed cell
\* still carries the flag it had when flood fill exposed it.
C7_FlagOnExposed == [](C7_ExposedIsNoOp) /\ [][C7_ExposedStep]_vars

\* C7 witness: toggle_flag on a cell that is exposed and flagged has
\* returned CellWasExposed and the flag is still there.
C7_Witness ==
    /\ Ready
    /\ last.op = "toggle_flag" /\ last.result = "CellWasExposed"
    /\ field[LastCell].is_exposed /\ field[LastCell].is_flagged

\* The results of two consecutive toggle_flag(p) calls and the field after
\* them.
TwoToggles(p) ==
    LET r1 == ToggleAt(p)
        r2 == toggle_flag(r1.field, p[1], p[2])
    IN  [results |-> <<r1.result, r2.result>>, field |-> r2.field]

\* C8 as stated: on every unexposed cell two consecutive toggle_flag calls
\* return Enabled then Disabled and restore the state.
C8_EnabledThenDisabled ==
    Ready =>
        \A p \in Cells \ Exposed(field) :
            TwoToggles(p) = [results |-> <<"Enabled", "Disabled">>, field |-> field]

\* C8 amended: on every unexposed cell two consecutive toggle_flag calls
\* restore the state; they return Enabled then Disabled when the cell was
\* unflagged, and Disabled then Enabled when it was flagged.
C8_TwoTogglesRestore ==
    Ready =>
        \A p \in Cells \ Exposed(field) :
            TwoToggles(p) =
                [results |-> IF field[p].is_flagged THEN <<"Disabled", "Enabled">>
                                                    ELSE <<"Enabled", "Disabled">>,
                 field |-> field]

\* C8 witness: after some exposure, a toggle_flag has just returned Disabled
\* on an unexposed cell (the flag it removes was set by an Enabled call),
\* and no flag is left.
C8_Witness ==
    /\ Ready
    /\ last.op = "toggle_flag" /\ last.result = "Disabled"
    /\ ~field[LastCell].is_exposed /\ ~field[LastCell].is_flagged
    /\ Exposed(field) # {}
    /\ Flagged(field) \subseteq Exposed(field)

\* What toggle_flag(p) would do on an unexposed cell: flip that cell's flag
\* and nothing else, and return Enabled exactly when the flag is then set.
C9_FlipOnly ==
    Ready =>
        \A p \in Cells \ Exposed(field) :
            LET r == ToggleAt(p)
            IN  /\ r.field = [field EXCEPT ![p].is_flagged = ~@]
                /\ r.result = IF r.field[p].is_flagged THEN "Enabled" ELSE "Disabled"

\* A toggle_flag step on an unexposed cell flipped that flag only, left
\* remaining_cells alone and returned Enabled exactly when the flag is set.
C9_FlipStep ==
    (last'.op = "toggle_flag" /\ ~field[LastCell'].is_exposed)
    => (/\ field' = [field EXCEPT ![LastCell'].is_flagged = ~@]
        /\ remaining_cells' = remaining_cells
        /\ last'.result = IF field'[LastCell'].is_flagged THEN "Enabled" ELSE "Disabled")

\* C9: toggle_flag on an unexposed cell flips only that cell's is_flagged and
\* returns Enabled iff the cell is flagged afterwards; remaining_cells, every
\* is_exposed, has_gopher, surrounding_gophers and every other flag stay,
\* gopher or not.
C9_ToggleFrame == [](C9_FlipOnly) /\ [][C9_FlipStep]_vars

\* C9 witness: after some exposure, toggle_flag has flagged an unexposed cell
\* that holds a gopher.
C9_Witness ==
    /\ Ready
    /\ last.op = "toggle_flag" /\ last.result = "Enabled"
    /\ field[LastCell].has_gopher /\ field[LastCell].is_flagged
    /\ Exposed(field) # {}

\* C10: whatever coordinates are drawn, repeated ones included, construction
\* ends with exactly gophers() cells holding a gopher, at distinct in-range
\* coordinates (the set of chosen coordinates), every cell unexposed and
\* unflagged.
C10_PlacementCount ==
    Ready =>
        /\ Cardinality(Gophers(field)) = gophers(config)
        /\ Gophers(field) = planted_gophers
        /\ planted_gophers \subseteq Cells
        /\ (Fresh => \A p \in Cells : ~field[p].is_exposed /\ ~field[p].is_flagged)

\* C10 witness: construction of a grid with at least two gophers has just
\* ended after a draw of the loop hit an already chosen coordinate.
C10_Witness ==
    /\ Ready
    /\ last.op = "draw" /\ last.collided
    /\ gophers(config) >= 2

\* The number of in-bounds 8-neighbours of p that hold a gopher.
GopherNeighbours(p) ==
    Cardinality({ q \in Cells : Adjacent(p, q) /\ field[q].has_gopher })

\* C11: in every state, during placement, right after construction and after
\* any calls, each cell's surrounding_gophers is the number of its in-bounds
\* 8-neighbours that hold a gopher (the cell itself not counted); a colliding
\* draw does not count twice, and the gophers stay where they were planted.
C11_SurroundingGophers ==
    /\ \A p \in Cells : field[p].surrounding_gophers = GopherNeighbours(p)
    /\ Gophers(field) = planted_gophers

\* C11 witness: construction has just ended after a draw hit a chosen
\* coordinate, and a cell has two gophers around it.
C11_Witness ==
    /\ Ready
    /\ last.op = "draw" /\ last.collided
    /\ \E p \in Cells : field[p].surrounding_gophers >= 2

\* C13: on a grid built with 0 gophers remaining_cells starts as
\* width * height, and the first try_expose_cell on any unflagged cell exposes
\* every cell and returns Win; on the 1x1 grid remaining_cells starts as 1 and
\* exposing (0, 0) returns Win.
C13_EmptyGridWin ==
    (Ready /\ gophers(config) = 0) =>
        /\ (Fresh => remaining_cells = Width * Height)
        /\ (Fresh /\ Width = 1 /\ Height = 1 =>
                remaining_cells = 1 /\ ExposeAt(<<0, 0>>).result = "Win")
        /\ (Exposed(field) = {} =>
                \A p \in Cells \ Flagged(field) :
                    LET r == ExposeAt(p)
                    IN  /\ r.result = "Win"
                        /\ Exposed(r.field) = Cells
                        /\ r.remaining_cells = 0)

\* C13 witness: on a grid of at least four cells built with 0 gophers, one
\* of them flagged, the first try_expose_cell has exposed every cell and
\* returned Win.
C13_Witness ==
    /\ Ready /\ gophers(config) = 0
    /\ Width * Height >= 4
    /\ last.op = "try_expose_cell" /\ last.result = "Win"
    /\ Exposed(field) = Cells
    /\ Flagged(field) # {}

\* C14: no cell that holds a gopher is adjacent to a zero-count cell, and no
\* call ever exposes a cell that holds a gopher.
C14_GophersNeverExposed ==
    /\ \A z \in ZeroCells : \A q \in Cells : Adjacent(z, q) => ~field[q].has_gopher
    /\ Exposed(field) \cap Gophers(field) = {}

\* C14 witness: a flood fill from a zero-count cell has run on a grid with
\* gophers and has exposed cells next to a gopher.
C14_Witness ==
    /\ Ready
    /\ last.op = "try_expose_cell" /\ field[LastCell].surrounding_gophers = 0
    /\ \E q \in Exposed(field) : field[q].surrounding_gophers > 0

\* C19: every exposed cell of count 0 has all its in-bounds 8-neighbours
\* exposed.
C19_ZeroRegionsWhole ==
    \A z \in ZeroCells \cap Exposed(field) :
        \A q \in Cells : Adjacent(z, q) => field[q].is_exposed

\* C19 witness: a zero-count cell with at least two neighbours is exposed,
\* and gopher-free cells are left unexposed.
C19_Witness ==
    /\ Ready
    /\ \E z \in ZeroCells \cap Exposed(field) :
          Cardinality({ q \in Cells : Adjacent(z, q) }) >= 2
    /\ remaining_cells > 0

(***************************************************************************)
(* gophers() against the ceiling of the density times the cell count in    *)
(* exact arithmetic.                                                       *)
(***************************************************************************)
\* Ceiling of a / b for a >= 0, b > 0.
CeilDiv(a, b) == (a \div b) + (IF a % b = 0 THEN 0 ELSE 1)

\* Ceiling of d.m * n / 2^(d.e), the product kept in two 12-bit limbs.
CeilOfBinary(d, n) ==
    LET a == (d.m \div Pow2(12)) * n
        b == (d.m % Pow2(12)) * n
        hi == a + (b \div Pow2(12))
        lo == b % Pow2(12)
    IN  IF d.e < 12 THEN CeilDiv(d.m * n, Pow2(d.e))
        ELSE (hi \div Pow2(d.e - 12))
             + (IF hi % Pow2(d.e - 12) = 0 /\ lo = 0 THEN 0 ELSE 1)

\* ceil(density * width * height): the presets are 10%, 15% and 20%, a
\* custom density is the f32 value it was given as.
ExactGophers(c) ==
    LET n == size(c)[1] * size(c)[2]
    IN  CASE c.difficulty.kind = "Easy" -> CeilDiv(10 * n, 100)
          [] c.difficulty.kind = "Normal" -> CeilDiv(15 * n, 100)
          [] c.difficulty.kind = "Hard" -> CeilDiv(20 * n, 100)
          [] OTHER -> CeilOfBinary(c.difficulty.gophers_percentage, n)

\* The presets as the claim lists them.
PresetTable ==
    /\ (config.field_size.kind = "Small" => size(config) = <<10, 8>>)
    /\ (config.field_size.kind = "Medium" => size(config) = <<18, 12>>)
    /\ (config.field_size.kind = "Big" => size(config) = <<24, 20>>)
    /\ (config.field_size.kind = "Custom" =>
            size(config) = <<config.field_size.width, config.field_size.height>>)

\* C12: for every configuration gophers() is ceil(density * width * height)
\* and at most width * height; the presets are Small = 10x8, Medium = 18x12,
\* Big = 24x20, Easy = 10%, Normal = 15%, Hard = 20%, and Small with Easy
\* gives 8.
C12_GophersIsCeiling ==
    /\ (last.op = "size" => last.result = size(config) /\ PresetTable)
    /\ (last.op = "gophers" =>
            /\ last.result = ExactGophers(config)
            /\ last.result <= Width * Height
            /\ (config.field_size.kind = "Small" /\ config.difficulty.kind = "Easy"
                    => last.result = 8))

\* What holds of gophers() in C12: the preset table, Small with Easy gives
\* 8, the three preset sizes get the exact ceiling at every preset
\* difficulty, and the count is never above width * height.
C12_PresetsAndBound ==
    /\ (last.op = "size" => last.result = size(config) /\ PresetTable)
    /\ (last.op = "gophers" =>
            /\ last.result <= Width * Height
            /\ last.result >= ExactGophers(config)
            /\ last.result <= ExactGophers(config) + 1
            /\ (config.field_size.kind # "Custom" =>
                    last.result = ExactGophers(config))
            /\ (config.field_size.kind = "Small" /\ config.difficulty.kind = "Easy"
                    => last.result = 8))

(***************************************************************************)
(* The neighbour enumeration against the geometry.                         *)
(***************************************************************************)
Range(s) == { s[i] : i \in 1..Len(s) }

\* Number of sides of the grid the cell p lies on.
Sides(p) ==
    (IF p[1] = 0 THEN 1 ELSE 0) + (IF p[1] = Width - 1 THEN 1 ELSE 0)
    + (IF p[2] = 0 THEN 1 ELSE 0) + (IF p[2] = Height - 1 THEN 1 ELSE 0)

\* The cells (x + dx, y + dy), dx, dy in {-1, 0, 1} not both 0, inside the grid.
Around(p) ==
    { q \in (p[1] - 1 .. p[1] + 1) \X (p[2] - 1 .. p[2] + 1) :
        /\ q # p
        /\ q[1] >= 0 /\ q[1] < Width
        /\ q[2] >= 0 /\ q[2] < Height }

IsEdgeNeighbour(p, q) == q[1] = p[1] \/ q[2] = p[2]

\* left, up, right, down of p, those inside the grid, in that order.
EdgeNeighbours(p) ==
    SelectSeq(<< <<p[1] - 1, p[2]>>, <<p[1], p[2] - 1>>,
                 <<p[1] + 1, p[2]>>, <<p[1], p[2] + 1>> >>,
              LAMBDA q : q \in Around(p))

\* C18: for every grid size and in-range (x, y), surrounding_cells_coords
\* returns exactly the cells (x + dx, y + dy), dx, dy in {-1, 0, 1} not both
\* 0, that lie inside the grid: never (x, y), never a duplicate, never an
\* out-of-range coordinate; 3 cells for a corner, 5 for an edge, 8 for an
\* interior cell, 0 on a 1x1 grid; left, up, right, down come first, in this
\* order, then the diagonals.
C18_NeighbourEnumeration ==
    last.op = "surrounding_cells_coords" =>
        LET p == LastCell
            cs == last.result
        IN  /\ Range(cs) = Around(p)
            /\ Len(cs) = Cardinality(Around(p))
            /\ p \notin Range(cs)
            /\ \A i \in 1..Len(cs) :
                    /\ cs[i][1] \in 0..(Width - 1)
                    /\ cs[i][2] \in 0..(Height - 1)
            /\ (Sides(p) = 0 => Len(cs) = 8)
            /\ (Sides(p) = 1 => Len(cs) = 5)
            /\ (Sides(p) = 2 /\ Width >= 2 /\ Height >= 2 => Len(cs) = 3)
            /\ (Width = 1 /\ Height = 1 => Len(cs) = 0)
            /\ SelectSeq(cs, LAMBDA q : IsEdgeNeighbour(p, q)) = EdgeNeighbours(p)
            /\ \A i, j \in 1..Len(cs) :
                    IsEdgeNeighbour(p, cs[i]) /\ ~IsEdgeNeighbour(p, cs[j]) => i < j

\* surrounding_cells_coords was applied to an interior cell whose column 0
\* and row 0 neighbours are all in its result.
C18_Witness ==
    /\ last.op = "surrounding_cells_coords"
    /\ LastCell = <<1, 1>>
    /\ Width >= 3 /\ Height >= 3
    /\ Len(last.result) = 8
    /\ <<0, 0>> \in Range(last.result)

(***************************************************************************)
(* Termination of the placement loop.                                      *)
(***************************************************************************)
\* More gophers asked for than the grid has cells.
OverFull == gophers(config) > Width * Height

\* C16 as claimed: placement retries on collision until the required count
\* of unique positions is reached; with gophers() < width * height the loop
\* terminates under fair draws, with gophers() >= width * height (density
\* 100% or more) it never terminates.
C16_NeverTerminatesAtFull ==
    /\ [](Ready => Cardinality(planted_gophers) = gophers(config))
    /\ ((gophers(config) < Width * Height) ~> Ready)
    /\ [](gophers(config) >= Width * Height => ~Ready)

\* C16, amended: placement retries on collision until the required count of
\* unique positions is reached; with gophers() <= width * height, a density
\* of exactly 100% included, the loop terminates under fair draws; with
\* gophers() > width * height `new` never returns.
C16_PlacementTermination ==
    /\ [](Ready => Cardinality(planted_gophers) = gophers(config))
    /\ (~OverFull ~> Ready)
    /\ [](OverFull => ~Ready)

\* `new` returned with a gopher in every cell of a grid of four cells or
\* more, after at least one colliding draw.
C16_Witness ==
    /\ Ready /\ last.op = "draw" /\ last.collided
    /\ gophers(config) = Width * Height
    /\ Width * Height >= 4
    /\ Gophers(field) = Cells

\* The loop of a build without overflow checks has filled every cell and
\* goes on drawing.
C16_WitnessOverFull ==
    /\ OverFull /\ pc = "new" /\ last.collided
    /\ planted_gophers = Cells
    /\ remaining_cells < 0

(***************************************************************************)
(* The invocations of one flood fill.                                      *)
(***************************************************************************)
\* The flood fill try_expose_cell starts on p in the current state.
TraceAt(p) ==
    TracedExpose(config,
                 [field |-> field, remaining_cells |-> remaining_cells,
                  calls |-> 0, depth |-> 0, max_depth |-> 0, on_exposed |-> FALSE],
                 p[1], p[2])

\* C15: the flood fill of a try_expose_cell terminates: every invocation of
\* expose_recursively is made on a cell unexposed at that moment, so no cell
\* is exposed or counted twice, and the number of invocations and the
\* recursion depth are at most the number of cells unexposed when the call
\* began.
C15_FloodFillBounded ==
    Ready =>
        LET unexposed == Cardinality(Cells \ Exposed(field))
        IN  \A p \in { q \in Cells : Exposable(q) } :
                LET t == TraceAt(p)
                    r == ExposeAt(p)
                IN  /\ ~t.on_exposed
                    /\ t.calls <= unexposed
                    /\ t.max_depth <= unexposed
                    /\ t.depth = 0
                    /\ t.calls = Cardinality(Exposed(t.field) \ Exposed(field))
                    /\ t.calls = remaining_cells - t.remaining_cells
                    /\ t.field = r.field
                    /\ t.remaining_cells = r.remaining_cells

\* A flood fill of at least four invocations, nested at least three deep,
\* can start on an unflagged cell while another cell is already exposed.
C15_Witness ==
    /\ Ready /\ Exposed(field) # {} /\ Flagged(field) # {}
    /\ \E p \in { q \in Cells : Exposable(q) } :
            TraceAt(p).calls >= 4 /\ TraceAt(p).max_depth >= 3

(***************************************************************************)
(* Two exposures in either order.                                          *)
(***************************************************************************)
\* try_expose_cell(p) applied to the grid state s = [field, remaining_cells].
ExposeIn(s, p) ==
    LET r == try_expose_cell(config, s.field, s.remaining_cells, p[1], p[2])
    IN  [field |-> r.field, remaining_cells |-> r.remaining_cells]

\* The result value of try_expose_cell(p) applied to the grid state s.
ResultIn(s, p) ==
    try_expose_cell(config, s.field, s.remaining_cells, p[1], p[2]).result

GridState == [field |-> field, remaining_cells |-> remaining_cells]

\* An order of the cells, to take each pair of two cells once.
Before(a, b) == a[1] < b[1] \/ (a[1] = b[1] /\ a[2] < b[2])

\* C20: from every reachable state and for any two in-range cells a and b,
\* try_expose_cell(a) then try_expose_cell(b) leaves the same grid (exposed
\* set, flags, remaining_cells) as try_expose_cell(b) then
\* try_expose_cell(a).
C20_ExposuresCommute ==
    Ready =>
        LET after == [p \in Cells |-> ExposeIn(GridState, p)]
        IN  \A a \in Cells : \A b \in { q \in Cells : Before(a, q) } :
                ExposeIn(after[a], b) = ExposeIn(after[b], a)

\* A flagged grid with an exposable zero-count cell a and another exposable
\* cell b that the flood fill of a reaches: b answers differently in the two
\* orders, and the second call of the order b, a still exposes cells.
C20_Witness ==
    /\ Ready /\ Flagged(field) # {}
    /\ \E a, b \in { q \in Cells : Exposable(q) } :
            /\ a # b
            /\ field[a].surrounding_gophers = 0
            /\ b \in NewlyExposed(a)
            /\ ResultIn(ExposeIn(GridState, a), b) # ResultIn(GridState, b)
            /\ ExposeIn(ExposeIn(GridState, b), a) # ExposeIn(GridState, b)

(***************************************************************************)
(* The recursive flood fill against the iterative one.                     *)
(***************************************************************************)
\* The iterative exposure is running / has emptied its worklist.
WorklistRunning == pc = "worklist"
WorklistOver == pc = "worklist" /\ last.result.pending = {}

\* What the recursive expose_recursively makes of the grid the running
\* iterative exposure began in, from the same cell.
RecursiveOutcome ==
    expose_recursively(config, last.result.before, last.x, last.y)

\* C17: from every reachable state and start cell, the recursive
\* depth-first exposure ends with the same exposed cells and the same
\* remaining_cells as the iterative worklist exposure, in whatever order the
\* worklist is processed; on its way the worklist exposes no cell the
\* recursion leaves unexposed.
C17_RecursionEqualsWorklist ==
    WorklistRunning =>
        LET rec == RecursiveOutcome
        IN  /\ Exposed(field) \subseteq Exposed(rec.field)
            /\ (WorklistOver =>
                    /\ field = rec.field
                    /\ remaining_cells = rec.remaining_cells)

\* An iterative exposure that began on a grid with an exposed cell has
\* ended after exposing four cells or more, a flagged one among them.
C17_Witness ==
    /\ WorklistOver
    /\ Exposed(last.result.before.field) # {}
    /\ Cardinality(Exposed(field) \ Exposed(last.result.before.field)) >= 4
    /\ \E p \in Exposed(field) \ Exposed(last.result.before.field) :
            field[p].is_flagged

====
